---- MODULE Spec2Model ----
(***************************************************************************)
(* Model of scripts/stream_scryfall_blocks.py: the incremental JSON-array  *)
(* reader iter_json_array, the marker scan, the playability classifier     *)
(* is_non_playable and the renderer build_block.                           *)
(*                                                                         *)
(* Text is a sequence of one-character strings.  An optional value (what   *)
(* dict.get returns) is <<>> for None and <<v>> for the value v.           *)
(*                                                                         *)
(* The reader is run over every text of at most MaxLen characters of       *)
(* Alphabet; the read size (65536 in the script) is scaled to 1..MaxChunk  *)
(* so that values straddle read boundaries within those texts.  The JSON   *)
(* grammar is the part of json.JSONDecoder that Alphabet can spell:        *)
(* arrays, strings without escapes, integers written with the digit 1.     *)
(***************************************************************************)
EXTENDS Integers, Sequences, FiniteSets, TLC

VARIABLES
  src,           \* the text of the file opened at line 9
  pos,           \* the file offset: characters f.read has returned so far
  chunkSize,     \* the size passed to f.read at line 20
  buf,           \* iter_json_array's buf
  yielded,       \* the values yielded so far, in order
  pc,            \* where the generator stands: "find_start" (lines 11-18),
                 \* "read" (line 20), "scan" (line 25), "returned", "raised"
  sawInvalid,    \* a caught JSONDecodeError was for text no value starts with
  card,          \* the card dict given to is_non_playable / build_block
  argTypeLine,   \* is_non_playable's type_line
  argOracleText, \* is_non_playable's / has_digital_only_oracle_marker's text
  stage,         \* "input" before the function under study runs, then "done"
  nonPlayable,   \* is_non_playable's return value
  markerHit,     \* has_digital_only_oracle_marker's return value
  block          \* build_block's return value

svars == <<src, pos, chunkSize, buf, yielded, pc, sawInvalid>>
cvars == <<card, argTypeLine, argOracleText, stage, nonPlayable, markerHit, block>>
vars == <<svars, cvars>>

(* ------------------------------ bounds --------------------------------- *)
MaxLen == 5
MaxChunk == 2
MaxTokens == 4
MaxFormats == 2
MaxFaces == 2

Alphabet == {"[", "]", ",", " ", "1", "\""}

Min(a, b) == IF a < b THEN a ELSE b

Range(s) == {s[i] : i \in 1..Len(s)}

Texts == UNION {[1..n -> Alphabet] : n \in 0..MaxLen}

(* s[i..] in Python slice terms, with i a 1-based index of the first kept  *)
Drop(s, i) == SubSeq(s, i, Len(s))

(* --------------------------- decoded values ---------------------------- *)
NumVal(n) == [t |-> "num", n |-> n, s |-> <<>>, a |-> <<>>]
StrVal(s) == [t |-> "str", n |-> 0, s |-> s, a |-> <<>>]
ArrVal(a) == [t |-> "arr", n |-> 0, s |-> <<>>, a |-> a]
NoVal == [t |-> "none", n |-> 0, s |-> <<>>, a |-> <<>>]

Ok(v, e) == [kind |-> "ok", val |-> v, end |-> e]
Fail(k) == [kind |-> k, val |-> NoVal, end |-> 0]

(* str.isspace() of one character                                         *)
IsSpace(c) == c \in {" ", "\n", "\t", "\r"}

(* json's whitespace skip inside a value: first index >= i that is not ws  *)
RECURSIVE SkipWs(_, _)
SkipWs(s, i) ==
  IF i <= Len(s) /\ IsSpace(s[i]) THEN SkipWs(s, i + 1) ELSE i

(* scanstring: i is the index after the opening quote                      *)
RECURSIVE ScanString(_, _, _)
ScanString(s, i, acc) ==
  IF i > Len(s) THEN Fail("incomplete")
  ELSE IF s[i] = "\"" THEN Ok(StrVal(acc), i + 1)
  ELSE ScanString(s, i + 1, Append(acc, s[i]))

(* NUMBER_RE match of an integer made of the digit 1: greedy                *)
RECURSIVE ScanNumber(_, _, _)
ScanNumber(s, i, acc) ==
  IF i <= Len(s) /\ s[i] = "1" THEN ScanNumber(s, i + 1, 10 * acc + 1)
  ELSE Ok(NumVal(acc), i)

RECURSIVE ScanValue(_, _)
RECURSIVE ScanItems(_, _, _)

(* scan_once: one JSON value starting exactly at index i                   *)
ScanValue(s, i) ==
  IF i > Len(s) THEN Fail("incomplete")
  ELSE IF s[i] = "\"" THEN ScanString(s, i + 1, <<>>)
  ELSE IF s[i] = "[" THEN
    LET j == SkipWs(s, i + 1) IN
      IF j <= Len(s) /\ s[j] = "]" THEN Ok(ArrVal(<<>>), j + 1)
      ELSE ScanItems(s, j, <<>>)
  ELSE IF s[i] = "1" THEN ScanNumber(s, i, 0)
  ELSE Fail("invalid")

(* JSONArray's element loop                                                *)
ScanItems(s, i, acc) ==
  LET r == ScanValue(s, i) IN
    IF r.kind # "ok" THEN r
    ELSE LET j == SkipWs(s, r.end) IN
      IF j > Len(s) THEN Fail("incomplete")
      ELSE IF s[j] = "]" THEN Ok(ArrVal(Append(acc, r.val)), j + 1)
      ELSE IF s[j] # "," THEN Fail("invalid")
      ELSE ScanItems(s, SkipWs(s, j + 1), Append(acc, r.val))

(* decoder.raw_decode(buf): no leading whitespace skip; idx = end - 1      *)
raw_decode(b) == ScanValue(b, 1)

(* json.loads(text): the whole document decoded at once                    *)
loads(text) ==
  LET r == ScanValue(text, SkipWs(text, 1)) IN
    IF r.kind # "ok" THEN r
    ELSE IF SkipWs(text, r.end) # Len(text) + 1 THEN Fail("invalid")
    ELSE r

(* str.lstrip()                                                            *)
lstrip(b) == Drop(b, SkipWs(b, 1))

AdvanceOffByOne(b, e) == Drop(b, e + 1)

(* buf = buf[idx:] after a successful decode, e = idx + 1                  *)
Advance(b, e) == Drop(b, e)

DropCommaKeeps(b) == b

(* buf = buf[1:] on a separator comma                                      *)
DropComma(b) == Drop(b, 2)

(* the except branch: buf is kept as it is                                 *)
KeepOnFail(b) == b

(* f.read(n) at file offset p                                              *)
read(p, n) == SubSeq(src, p + 1, Min(p + n, Len(src)))

(* ---------------------------- iter_json_array -------------------------- *)
FindStartAnyChar ==
  /\ pc = "find_start"
  /\ LET ch == read(pos, 1) IN
       IF ch = <<>> THEN pc' = "returned" /\ pos' = pos
       ELSE /\ pos' = pos + 1
            /\ pc' = IF ~IsSpace(ch[1]) THEN "read" ELSE "find_start"
  /\ UNCHANGED <<src, chunkSize, buf, yielded, sawInvalid, cvars>>

(* lines 11-18: one iteration of the array-start search                    *)
FindStart ==
  /\ pc = "find_start"
  /\ LET ch == read(pos, 1) IN
       IF ch = <<>> THEN pc' = "returned" /\ pos' = pos
       ELSE /\ pos' = pos + 1
            /\ pc' = IF ch[1] = "[" THEN "read" ELSE "find_start"
  /\ UNCHANGED <<src, chunkSize, buf, yielded, sawInvalid, cvars>>

(* lines 20-23: one iteration head of the outer loop                       *)
ReadChunk ==
  /\ pc = "read"
  /\ LET chunk == read(pos, chunkSize) IN
       IF chunk = <<>> THEN pc' = "returned" /\ UNCHANGED <<pos, buf>>
       ELSE /\ buf' = buf \o chunk
            /\ pos' = pos + Len(chunk)
            /\ pc' = "scan"
  /\ UNCHANGED <<src, chunkSize, yielded, sawInvalid, cvars>>

(* lines 25-38: one iteration of the inner loop                            *)
ScanStep ==
  /\ pc = "scan"
  /\ LET b == lstrip(buf) IN
       IF b = <<>> THEN
         buf' = b /\ pc' = "read" /\ UNCHANGED <<yielded, sawInvalid>>
       ELSE IF b[1] = "]" THEN
         buf' = b /\ pc' = "returned" /\ UNCHANGED <<yielded, sawInvalid>>
       ELSE IF b[1] = "," THEN
         buf' = DropComma(b) /\ pc' = "scan" /\ UNCHANGED <<yielded, sawInvalid>>
       ELSE LET r == raw_decode(b) IN
         IF r.kind = "ok" THEN
           /\ yielded' = Append(yielded, r.val)
           /\ buf' = Advance(b, r.end)
           /\ pc' = "scan"
           /\ UNCHANGED sawInvalid
         ELSE
           /\ buf' = KeepOnFail(b)
           /\ pc' = "read"
           /\ sawInvalid' = (sawInvalid \/ r.kind = "invalid")
           /\ UNCHANGED yielded
  /\ UNCHANGED <<src, pos, chunkSize, cvars>>

(* ------------------------------ text helpers --------------------------- *)
None == <<>>
Some(v) == <<v>>

UpperLetters == <<"A", "B", "C", "D", "E", "F", "G", "H", "I", "J", "K", "L", "M", "N", "O", "P", "Q", "R", "S", "T", "U", "V", "W", "X", "Y", "Z">>
LowerLetters == <<"a", "b", "c", "d", "e", "f", "g", "h", "i", "j", "k", "l", "m", "n", "o", "p", "q", "r", "s", "t", "u", "v", "w", "x", "y", "z">>

(* str.isalpha() of one character, or of "" (given as <<>>): ASCII letters *)
isalpha(c) == c # <<>> /\ c[1] \in (Range(UpperLetters) \cup Range(LowerLetters))

LowerChar(c) ==
  IF c \in Range(UpperLetters)
  THEN LowerLetters[CHOOSE i \in 1..Len(UpperLetters) : UpperLetters[i] = c]
  ELSE c

(* str.lower()                                                             *)
lower(s) == [i \in 1..Len(s) |-> LowerChar(s[i])]

RECURSIVE rstrip(_)
rstrip(s) ==
  IF s # <<>> /\ IsSpace(s[Len(s)]) THEN rstrip(SubSeq(s, 1, Len(s) - 1)) ELSE s

(* str.strip()                                                             *)
strip(s) == rstrip(lstrip(s))

(* text[i] with a 0-based index i                                          *)
At(text, i) == text[i + 1]

(* text.startswith(sub, i), i 0-based                                      *)
MatchAt(text, sub, i) ==
  i + Len(sub) <= Len(text) /\ SubSeq(text, i + 1, i + Len(sub)) = sub

(* text.find(sub, start): lowest 0-based index >= start, or -1            *)
RECURSIVE find(_, _, _)
find(text, sub, start) ==
  IF start + Len(sub) > Len(text) THEN -1
  ELSE IF MatchAt(text, sub, start) THEN start
  ELSE find(text, sub, start + 1)

(* sub in text                                                             *)
contains(text, sub) == find(text, sub, 0) # -1

(* truthiness of an optional string, dict or list                          *)
Truthy(v) == v # None /\ v[1] # <<>>

(* v or "" / v or {} / v or []                                             *)
OrEmpty(v) == IF Truthy(v) THEN v[1] ELSE <<>>

(* -------------------------- the marker scan ---------------------------- *)
(* lines 50-63                                                             *)
DIGITAL_ONLY_ORACLE_MARKERS ==
  << <<"b", "o", "o", "n">>,
     <<"c", "o", "n", "j", "u", "r", "e">>,
     <<"d", "o", "u", "b", "l", "e", " ", "t", "e", "a", "m">>,
     <<"d", "r", "a", "f", "t">>,
     <<"h", "e", "i", "s", "t">>,
     <<"i", "n", "c", "o", "r", "p", "o", "r", "a", "t", "e">>,
     <<"i", "n", "t", "e", "n", "s", "i", "t", "y">>,
     <<"i", "n", "t", "e", "n", "s", "i", "f", "y">>,
     <<"p", "e", "r", "p", "e", "t", "u", "a", "l", "l", "y">>,
     <<"s", "e", "e", "k">>,
     <<"s", "p", "e", "c", "i", "a", "l", "i", "z", "e">>,
     <<"s", "p", "e", "l", "l", "b", "o", "o", "k">> >>

(* lines 69-74: the boundary test of the occurrence at start               *)
BoundaryOk(text, marker, start) ==
  LET before == IF start > 0 THEN <<At(text, start - 1)>> ELSE <<>>
      after_index == start + Len(marker)
      after == IF after_index < Len(text) THEN <<At(text, after_index)>> ELSE <<>>
  IN  ~isalpha(before) /\ ~isalpha(after)

(* lines 68-77: the loop over the occurrences, from the one at start       *)
RECURSIVE ScanOccurrences(_, _, _)
ScanOccurrences(text, marker, start) ==
  IF start = -1 THEN FALSE
  ELSE IF BoundaryOk(text, marker, start) THEN TRUE
  ELSE ScanOccurrences(text, marker, find(text, marker, start + 1))

FirstOccurrenceOnly(text, marker) ==
  LET start == find(text, marker, 0) IN
    start # -1 /\ BoundaryOk(text, marker, start)

contains_marker_with_boundaries(text, marker) ==
  ScanOccurrences(text, marker, find(text, marker, 0))

has_digital_only_oracle_marker(oracle) ==
  LET low == lower(oracle) IN
    \E k \in 1..Len(DIGITAL_ONLY_ORACLE_MARKERS) :
      contains_marker_with_boundaries(low, DIGITAL_ONLY_ORACLE_MARKERS[k])

(* ----------------------------- the classifier -------------------------- *)
S_silver == <<"s", "i", "l", "v", "e", "r">>
S_not_legal == "not_legal"
S_Card == <<"C", "a", "r", "d">>
S_ThemeColor == <<"T", "h", "e", "m", "e", " ", "c", "o", "l", "o", "r">>

(* lines 101-110                                                           *)
NonPlayableLayouts ==
  { <<"t", "o", "k", "e", "n">>,
    <<"d", "o", "u", "b", "l", "e", "_", "f", "a", "c", "e", "d", "_", "t", "o", "k", "e", "n">>,
    <<"e", "m", "b", "l", "e", "m">>,
    <<"p", "l", "a", "n", "a", "r">>,
    <<"s", "c", "h", "e", "m", "e">>,
    <<"v", "a", "n", "g", "u", "a", "r", "d">>,
    <<"a", "r", "t", "_", "s", "e", "r", "i", "e", "s">>,
    <<"r", "e", "v", "e", "r", "s", "i", "b", "l", "e", "_", "c", "a", "r", "d">> }

TypesWithoutPlane ==
  { <<"T", "o", "k", "e", "n">>,
    <<"E", "m", "b", "l", "e", "m">>,
    <<"S", "c", "h", "e", "m", "e">>,
    <<"V", "a", "n", "g", "u", "a", "r", "d">>,
    <<"P", "h", "e", "n", "o", "m", "e", "n", "o", "n">>,
    <<"C", "o", "n", "s", "p", "i", "r", "a", "c", "y">>,
    <<"D", "u", "n", "g", "e", "o", "n">>,
    <<"A", "t", "t", "r", "a", "c", "t", "i", "o", "n">>,
    <<"C", "o", "n", "t", "r", "a", "p", "t", "i", "o", "n">> }

(* lines 114-125                                                           *)
non_playable_types ==
  { <<"T", "o", "k", "e", "n">>,
    <<"E", "m", "b", "l", "e", "m">>,
    <<"P", "l", "a", "n", "e">>,
    <<"S", "c", "h", "e", "m", "e">>,
    <<"V", "a", "n", "g", "u", "a", "r", "d">>,
    <<"P", "h", "e", "n", "o", "m", "e", "n", "o", "n">>,
    <<"C", "o", "n", "s", "p", "i", "r", "a", "c", "y">>,
    <<"D", "u", "n", "g", "e", "o", "n">>,
    <<"A", "t", "t", "r", "a", "c", "t", "i", "o", "n">>,
    <<"C", "o", "n", "t", "r", "a", "p", "t", "i", "o", "n">> }

(* legalities.values()                                                     *)
Values(d) == {d[k] : k \in DOMAIN d}

(* line 97                                                                 *)
AllNotLegal(legalities) ==
  legalities # <<>> /\ \A v \in Values(legalities) : v = S_not_legal

TypeRuleNoStrip(tl) ==
  Truthy(tl) /\
    (\/ \E label \in non_playable_types : contains(tl[1], label)
     \/ tl[1] = S_Card)

(* lines 113-131                                                           *)
TypeRule(tl) ==
  Truthy(tl) /\
    (\/ \E label \in non_playable_types : contains(tl[1], label)
     \/ strip(tl[1]) = S_Card)

(* lines 88-138: the early returns in their order                          *)
is_non_playable(c, tl, ot) ==
  LET border_color == lower(strip(OrEmpty(c.border_color)))
      legalities == OrEmpty(c.legalities)
      layout == lower(strip(OrEmpty(c.layout)))
  IN  IF border_color = S_silver THEN TRUE
      ELSE IF c.has_acorn = Some(TRUE) THEN TRUE
      ELSE IF AllNotLegal(legalities) THEN TRUE
      ELSE IF layout \in NonPlayableLayouts THEN TRUE
      ELSE IF TypeRule(tl) THEN TRUE
      ELSE IF Truthy(ot) /\ contains(ot[1], S_ThemeColor) THEN TRUE
      ELSE IF Truthy(ot) /\ has_digital_only_oracle_marker(ot[1]) THEN TRUE
      ELSE FALSE

(* ------------------------------ the renderer --------------------------- *)
(* lines 41-47; face is None or Some(face record)                          *)
pick_field(c, face, key) ==
  IF c[key] # None THEN c[key]
  ELSE IF face # None THEN face[1][key]
  ELSE None

(* lines 142-143                                                           *)
FirstFace(c) ==
  LET faces == OrEmpty(c.card_faces) IN
    IF faces # <<>> THEN Some(faces[1]) ELSE None

ResolveNameLastFace(c, face) ==
  LET faces == OrEmpty(c.card_faces) IN
    IF Truthy(c.name) THEN c.name
    ELSE IF faces # <<>> THEN faces[Len(faces)].name
    ELSE None

(* line 145: card.get("name") or (face or {}).get("name")                  *)
ResolveName(c, face) ==
  IF Truthy(c.name) THEN c.name
  ELSE IF face # None THEN face[1].name
  ELSE None

L_Name == <<"N", "a", "m", "e", ":", " ">>
L_Mana == <<"M", "a", "n", "a", " ", "c", "o", "s", "t", ":", " ">>
L_Type == <<"T", "y", "p", "e", ":", " ">>
L_PT == <<"P", "o", "w", "e", "r", "/", "T", "o", "u", "g", "h", "n", "e", "s", "s", ":", " ">>
L_Loyalty == <<"L", "o", "y", "a", "l", "t", "y", ":", " ">>
L_Defense == <<"D", "e", "f", "e", "n", "s", "e", ":", " ">>
Slash == <<"/">>
NL == <<"\n">>

(* "\n".join(lines)                                                        *)
RECURSIVE join(_)
join(lines) ==
  IF lines = <<>> THEN <<>>
  ELSE IF Len(lines) = 1 THEN lines[1]
  ELSE lines[1] \o NL \o join(Tail(lines))

(* lines.append(line) if cond                                              *)
AppendIf(lines, cond, line) == IF cond THEN Append(lines, line) ELSE lines

PowerToughnessEither(power, toughness) == power # None \/ toughness # None

(* line 165                                                                *)
PowerToughnessPresent(power, toughness) == power # None /\ toughness # None

(* lines 141-173                                                           *)
build_block(c) ==
  LET face == FirstFace(c)
      name == ResolveName(c, face)
      mana_cost == pick_field(c, face, "mana_cost")
      type_line == pick_field(c, face, "type_line")
      oracle_text == pick_field(c, face, "oracle_text")
      power == pick_field(c, face, "power")
      toughness == pick_field(c, face, "toughness")
      loyalty == pick_field(c, face, "loyalty")
      defense == pick_field(c, face, "defense")
  IN  IF ~Truthy(name) THEN None
      ELSE IF is_non_playable(c, type_line, oracle_text) THEN None
      ELSE
        LET l1 == <<L_Name \o name[1]>>
            l2 == AppendIf(l1, Truthy(mana_cost), L_Mana \o OrEmpty(mana_cost))
            l3 == AppendIf(l2, Truthy(type_line), L_Type \o OrEmpty(type_line))
            l4 == AppendIf(l3, PowerToughnessPresent(power, toughness),
                           L_PT \o OrEmpty(power) \o Slash \o OrEmpty(toughness))
            l5 == AppendIf(l4, loyalty # None, L_Loyalty \o OrEmpty(loyalty))
            l6 == AppendIf(l5, defense # None, L_Defense \o OrEmpty(defense))
            l7 == AppendIf(l6, Truthy(oracle_text), OrEmpty(oracle_text))
        IN  Some(join(l7))

(* ------------------------- inputs of the card model -------------------- *)
BlankFace ==
  [name |-> None, mana_cost |-> None, type_line |-> None, oracle_text |-> None,
   power |-> None, toughness |-> None, loyalty |-> None, defense |-> None]

BlankCard ==
  [name |-> None, mana_cost |-> None, type_line |-> None, oracle_text |-> None,
   power |-> None, toughness |-> None, loyalty |-> None, defense |-> None,
   border_color |-> None, has_acorn |-> None, legalities |-> None,
   layout |-> None, card_faces |-> None]

SeqsUpTo(S, n) == UNION {[1..k -> S] : k \in 0..n}

T_Seeker == <<"S", "e", "e", "k", "e", "r">>
T_SeekACard == <<"S", "e", "e", "k", " ", "a", " ", "c", "a", "r", "d">>
T_seek == <<"s", "e", "e", "k">>
T_boon == <<"b", "o", "o", "n">>
T_Planeswalker == <<"P", "l", "a", "n", "e", "s", "w", "a", "l", "k", "e", "r">>
T_Bolt == <<"B", "o", "l", "t">>
T_Face == <<"F", "a", "c", "e">>
T_Back == <<"B", "a", "c", "k">>

MarkerTokens == { T_seek, <<"S", "e", "e", "k">>, T_boon, <<"x">>, <<" ">>, <<"7">> }

RECURSIVE Concat(_)
Concat(ss) == IF ss = <<>> THEN <<>> ELSE ss[1] \o Concat(Tail(ss))

MarkerTexts ==
  {Concat(ts) : ts \in SeqsUpTo(MarkerTokens, MaxTokens)}
    \cup {T_Seeker, T_SeekACard}

Borders == {None, Some(<<"b", "l", "a", "c", "k">>), Some(S_silver), Some(<<" ", "S", "i", "l", "v", "e", "r">> \o NL)}
Acorns == {None, Some(FALSE), Some(TRUE)}
Statuses == {"legal", S_not_legal}
Legalities == {None} \cup {Some(l) : l \in SeqsUpTo(Statuses, MaxFormats)}
Layouts == {None, Some(<<"n", "o", "r", "m", "a", "l">>), Some(<<"p", "l", "a", "n", "a", "r">>), Some(<<" ", "T", "o", "k", "e", "n", " ">>)}

ClassTypeLines ==
  {None, Some(<<>>), Some(<<"I", "n", "s", "t", "a", "n", "t">>), Some(S_Card), Some(<<" ", "C", "a", "r", "d">> \o NL),
   Some(<<"C", "a", "r", "d", "b", "o", "a", "r", "d">>), Some(<<"T", "o", "k", "e", "n", " ", "C", "r", "e", "a", "t", "u", "r", "e">>),
   Some(<<"L", "e", "g", "e", "n", "d", "a", "r", "y", " ">> \o T_Planeswalker)}

ClassOracles ==
  {None, Some(<<>>), Some(<<"D", "e", "a", "l", " ", "3", " ", "d", "a", "m", "a", "g", "e", ".">>), Some(<<"T", "h", "e", "m", "e", " ", "c", "o", "l", "o", "r", ":", " ", "R">>),
   Some(<<"t", "h", "e", "m", "e", " ", "c", "o", "l", "o", "r">>), Some(T_SeekACard), Some(T_Seeker)}

ClassCards ==
  {[BlankCard EXCEPT !.border_color = b, !.has_acorn = a,
                     !.legalities = l, !.layout = y] :
     b \in Borders, a \in Acorns, l \in Legalities, y \in Layouts}

FaceA ==
  [name |-> Some(T_Face), mana_cost |-> Some(<<"{", "G", "}">>),
   type_line |-> Some(<<"C", "r", "e", "a", "t", "u", "r", "e">>), oracle_text |-> Some(<<"F", "l", "y", "i", "n", "g">>),
   power |-> Some(<<"1">>), toughness |-> Some(<<"1">>),
   loyalty |-> Some(<<"3">>), defense |-> Some(<<"6">>)]

FaceB == [BlankFace EXCEPT !.name = Some(T_Back)]

FaceLists == {None} \cup {Some(fs) : fs \in SeqsUpTo({FaceA, FaceB}, MaxFaces)}

ClearProfile ==
  [border_color |-> Some(<<"b", "l", "a", "c", "k">>), legalities |-> Some(<<"legal">>)]

Profiles ==
  { ClearProfile,
    [border_color |-> Some(S_silver), legalities |-> None],
    [border_color |-> None, legalities |-> Some(<<S_not_legal>>)] }

BlockCards ==
  {[BlankCard EXCEPT !.name = n, !.mana_cost = m, !.type_line = t,
                     !.oracle_text = o, !.power = p, !.toughness = u,
                     !.loyalty = y, !.defense = d, !.card_faces = fs,
                     !.border_color = pr.border_color,
                     !.legalities = pr.legalities] :
     n \in {None, Some(<<>>), Some(T_Bolt)},
     m \in {None, Some(<<>>), Some(<<"{", "R", "}">>)},
     t \in {None, Some(<<>>), Some(<<"I", "n", "s", "t", "a", "n", "t">>), Some(<<"L", "e", "g", "e", "n", "d", "a", "r", "y", " ">> \o T_Planeswalker)},
     o \in {None, Some(<<>>), Some(<<"D", "e", "a", "l", " ", "3", " ", "d", "a", "m", "a", "g", "e", ".">>)},
     p \in {None, Some(<<>>), Some(<<"2">>)},
     u \in {None, Some(<<"3">>)},
     y \in {None, Some(<<"4">>)},
     d \in {None, Some(<<"5">>)},
     fs \in FaceLists,
     pr \in Profiles}

(* ------------------------------ specifications ------------------------- *)
StreamIdle ==
  /\ src = <<>> /\ pos = 0 /\ chunkSize = 1 /\ buf = <<>>
  /\ yielded = <<>> /\ pc = "off" /\ sawInvalid = FALSE

CardIdle ==
  /\ card = BlankCard /\ argTypeLine = None /\ argOracleText = None
  /\ stage = "off" /\ nonPlayable = None /\ markerHit = None /\ block = None

(* iter_json_array over every text and read size within the bounds         *)
Init ==
  /\ src \in Texts
  /\ chunkSize \in 1..MaxChunk
  /\ pos = 0
  /\ buf = <<>>
  /\ yielded = <<>>
  /\ pc = "find_start"
  /\ sawInvalid = FALSE
  /\ CardIdle

Next == FindStart \/ ReadChunk \/ ScanStep

Spec == Init /\ [][Next]_vars

(* the same reader over the texts shorter than MaxLen                      *)
InitShort == Init /\ Len(src) < MaxLen

(* the consumer (main's for loop) drives the generator to exhaustion, so   *)
(* a step that can be taken is taken                                       *)
FairSpec == InitShort /\ [][Next]_vars /\ WF_vars(Next)

(* has_digital_only_oracle_marker applied to every text of MarkerTexts     *)
InitMarker ==
  /\ StreamIdle
  /\ card = BlankCard /\ argTypeLine = None
  /\ argOracleText \in {Some(t) : t \in MarkerTexts}
  /\ stage = "input" /\ nonPlayable = None /\ markerHit = None /\ block = None

ScanMarker ==
  /\ stage = "input"
  /\ markerHit' = Some(has_digital_only_oracle_marker(argOracleText[1]))
  /\ stage' = "done"
  /\ UNCHANGED <<svars, card, argTypeLine, argOracleText, nonPlayable, block>>

SpecMarker == InitMarker /\ [][ScanMarker]_vars

(* is_non_playable applied to every record and resolved pair               *)
InitClassify ==
  /\ StreamIdle
  /\ card \in ClassCards
  /\ argTypeLine \in ClassTypeLines
  /\ argOracleText \in ClassOracles
  /\ stage = "input" /\ nonPlayable = None /\ markerHit = None /\ block = None

Classify ==
  /\ stage = "input"
  /\ nonPlayable' = Some(is_non_playable(card, argTypeLine, argOracleText))
  /\ stage' = "done"
  /\ UNCHANGED <<svars, card, argTypeLine, argOracleText, markerHit, block>>

SpecClassify == InitClassify /\ [][Classify]_vars

(* build_block applied to every record of BlockCards                       *)
InitBlock ==
  /\ StreamIdle
  /\ card \in BlockCards
  /\ argTypeLine = None /\ argOracleText = None
  /\ stage = "input" /\ nonPlayable = None /\ markerHit = None /\ block = None

Render ==
  /\ stage = "input"
  /\ block' = build_block(card)
  /\ stage' = "done"
  /\ UNCHANGED <<svars, card, argTypeLine, argOracleText, nonPlayable, markerHit>>

SpecBlock == InitBlock /\ [][Render]_vars

(* ------------------------- claims: iter_json_array --------------------- *)
Ended == pc \in {"returned", "raised"}

WellFormedArray(text) ==
  LET r == loads(text) IN r.kind = "ok" /\ r.val.t = "arr"

EmptyArray(text) == WellFormedArray(text) /\ loads(text).val.a = <<>>

NoArrayStart(text) == "[" \notin Range(text)

(* a decode is attempted on the stripped buffer b                          *)
Attempts(b) == b # <<>> /\ b[1] \notin {"]", ","}

(* C1 (as stated): when the stream over a well-formed JSON array has ended, *)
(* the values yielded are the elements json.loads gives for the whole text, *)
(* whatever the read size.                                                 *)
C1_ChunkedEqualsWhole ==
  (Ended /\ WellFormedArray(src)) => yielded = loads(src).val.a

(* C2 (as stated): once a decode attempt has failed on text that is no     *)
(* prefix of any JSON value, the stream does not end normally.             *)
C2_InvalidNeverReturns == ~(sawInvalid /\ pc = "returned")

(* C3: a source without "[" and a source holding an empty array both give  *)
(* zero values and no error.                                               *)
C3_SilentEmpty ==
  (NoArrayStart(src) \/ EmptyArray(src)) => (yielded = <<>> /\ pc # "raised")

C3_Witness ==
  /\ pc = "returned"
  /\ EmptyArray(src)
  /\ Len(src) > 2
  /\ yielded = <<>>

(* C8: every inner-loop iteration that stays in the loop shortens the      *)
(* buffer, every outer-loop iteration that enters the inner loop consumes  *)
(* source text, no value is yielded without consuming buffered text, and   *)
(* the stream reaches its end.                                             *)
C8_Terminates ==
  /\ <>Ended
  /\ [][ /\ (pc = "scan" /\ pc' = "scan") => Len(buf') < Len(buf)
         /\ (pc = "read" /\ pc' = "scan") => pos' > pos
         /\ (pc = "find_start" /\ pc' # "returned") => pos' > pos
         /\ Len(yielded') > Len(yielded) => Len(buf') < Len(buf) ]_vars

C8_Witness == pc = "returned" /\ pos = Len(src) /\ Len(yielded) > 1 /\ buf # <<>>

(* C9: a successful decode yields the value, drops exactly the consumed    *)
(* characters and stays in the inner loop without reading; a failed decode *)
(* keeps the buffer and leaves for the next read, which appends the chunk  *)
(* to it; a read never happens while the buffer starts with a decodable    *)
(* value; characters leave the buffer only as leading whitespace, as one   *)
(* comma, or as the text a successful decode consumed.                     *)
C9_DrainThenRetry ==
  [][ LET b == lstrip(buf)
          r == raw_decode(b)
      IN  /\ (pc = "scan" /\ Attempts(b) /\ r.kind = "ok") =>
                /\ yielded' = Append(yielded, r.val)
                /\ buf' = SubSeq(b, r.end, Len(b))
                /\ r.end > 1
                /\ pos' = pos
                /\ pc' = "scan"
          /\ (pc = "scan" /\ Attempts(b) /\ r.kind # "ok") =>
                /\ buf' = b
                /\ yielded' = yielded
                /\ pc' = "read"
          /\ (pc = "read" /\ pc' = "scan") =>
                /\ buf' = buf \o SubSeq(src, pos + 1, pos')
                /\ pos' > pos
                /\ (buf # <<>> => raw_decode(buf).kind # "ok")
          /\ (pc = "scan" /\ buf' # buf) =>
                \/ buf' = b
                \/ b # <<>> /\ b[1] = "," /\ buf' = Tail(b)
                \/ Attempts(b) /\ r.kind = "ok" /\ buf' = SubSeq(b, r.end, Len(b))
    ]_vars

(* a value that spanned two reads was decoded on the retry, and a second   *)
(* value was then drained from the same buffer                             *)
C9_Witness ==
  /\ pc = "scan"
  /\ Len(yielded) = 2
  /\ yielded[1].t = "arr"
  /\ chunkSize = 2
  /\ pos = 5
(* ----------------------- claims: marker scan --------------------------- *)
Letter(c) == c \in Range(UpperLetters) \cup Range(LowerLetters)

(* marker occurs in text at 0-based index i with a non-letter, or nothing, *)
(* on each side                                                            *)
BoundedOccurrence(text, marker, i) ==
  /\ MatchAt(text, marker, i)
  /\ (i = 0 \/ ~Letter(text[i]))
  /\ (i + Len(marker) = Len(text) \/ ~Letter(text[i + Len(marker) + 1]))

SomeBoundedMarker(text) ==
  LET low == lower(text) IN
    \E k \in 1..Len(DIGITAL_ONLY_ORACLE_MARKERS) : \E i \in 0..Len(low) :
      BoundedOccurrence(low, DIGITAL_ONLY_ORACLE_MARKERS[k], i)

(* C5: has_digital_only_oracle_marker is true exactly when some occurrence *)
(* of some marker in the lowered text has no letter on either side; so     *)
(* "Seeker" does not match and "Seek a card" does.                         *)
C5_MarkerBoundaries ==
  stage = "done" =>
    /\ markerHit = Some(SomeBoundedMarker(argOracleText[1]))
    /\ (argOracleText[1] = T_Seeker => markerHit = Some(FALSE))
    /\ (argOracleText[1] = T_SeekACard => markerHit = Some(TRUE))

(* the first occurrence of "seek" fails the boundary test, a later one     *)
(* passes, and no other marker is in the text                              *)
C5_Witness ==
  /\ stage = "done"
  /\ markerHit = Some(TRUE)
  /\ LET low == lower(argOracleText[1])
         first == find(low, T_seek, 0)
     IN  /\ first # -1
         /\ ~BoundaryOk(low, T_seek, first)
         /\ ~contains(low, T_boon)

(* ------------------------ claims: classifier --------------------------- *)
Rule1(c) == c.border_color # None /\ lower(strip(c.border_color[1])) = S_silver
Rule2(c) == c.has_acorn = Some(TRUE)
Rule3(c) ==
  /\ c.legalities # None
  /\ Len(c.legalities[1]) > 0
  /\ \A i \in 1..Len(c.legalities[1]) : c.legalities[1][i] = "not_legal"
Rule4(c) == c.layout # None /\ lower(strip(c.layout[1])) \in NonPlayableLayouts
Rule5(tl) ==
  /\ tl # None
  /\ \/ \E label \in non_playable_types : \E i \in 0..Len(tl[1]) :
          MatchAt(tl[1], label, i)
     \/ strip(tl[1]) = S_Card
Rule6(ot) ==
  ot # None /\ \E i \in 0..Len(ot[1]) : MatchAt(ot[1], S_ThemeColor, i)
Rule7(ot) == ot # None /\ SomeBoundedMarker(ot[1])

AnyRule(c, tl, ot) ==
  Rule1(c) \/ Rule2(c) \/ Rule3(c) \/ Rule4(c) \/ Rule5(tl) \/ Rule6(ot) \/ Rule7(ot)

(* C4: the verdict of is_non_playable is the disjunction of the seven      *)
(* exclusion rules, so the record is playable exactly when none matches    *)
(* and the order of the early returns does not matter.                     *)
C4_PlayableIffNoRule ==
  stage = "done" =>
    nonPlayable = Some(AnyRule(card, argTypeLine, argOracleText))

(* only the "Card" rule, with surrounding whitespace, excludes the record  *)
C4_Witness ==
  /\ stage = "done"
  /\ nonPlayable = Some(TRUE)
  /\ argTypeLine = Some(<<" ", "C", "a", "r", "d">> \o NL)
  /\ ~Rule1(card) /\ ~Rule2(card) /\ ~Rule3(card) /\ ~Rule4(card)
  /\ ~Rule6(argOracleText) /\ ~Rule7(argOracleText)
  /\ card.legalities # None /\ Len(card.legalities[1]) = 2

(* ------------------------- claims: renderer ---------------------------- *)
Faces(c) == IF c.card_faces = None THEN <<>> ELSE c.card_faces[1]

(* top-level value if non-null, else the first face's, else null           *)
Resolved(c, key) ==
  IF c[key] # None THEN c[key]
  ELSE IF Faces(c) # <<>> THEN Faces(c)[1][key]
  ELSE None

NonEmpty(v) == v # None /\ Len(v[1]) > 0

Opt(cond, line) == IF cond THEN <<line>> ELSE <<>>

Val(v) == IF v = None THEN <<>> ELSE v[1]

(* the lines after the Name line: each present exactly under its condition *)
OptionalLines(c) ==
  LET mana == Resolved(c, "mana_cost")
      type == Resolved(c, "type_line")
      pow == Resolved(c, "power")
      tough == Resolved(c, "toughness")
      loy == Resolved(c, "loyalty")
      def == Resolved(c, "defense")
      text == Resolved(c, "oracle_text")
  IN  Opt(NonEmpty(mana), L_Mana \o Val(mana))
        \o Opt(NonEmpty(type), L_Type \o Val(type))
        \o Opt(pow # None /\ tough # None, L_PT \o Val(pow) \o Slash \o Val(tough))
        \o Opt(loy # None, L_Loyalty \o Val(loy))
        \o Opt(def # None, L_Defense \o Val(def))
        \o Opt(NonEmpty(text), Val(text))

NamesOf(c) ==
  {Val(c.name)} \cup {Val(Faces(c)[i].name) : i \in 1..Len(Faces(c))}

Playable(c) ==
  ~AnyRule(c, Resolved(c, "type_line"), Resolved(c, "oracle_text"))

(* C6: a playable record with a name gets a block, and every block is the  *)
(* Name line followed by the optional lines in the fixed order, each       *)
(* present exactly under its condition, joined by newlines.                *)
C6_LineOrder ==
  stage = "done" =>
    /\ (Playable(card) /\ NonEmpty(card.name)) => block # None
    /\ block # None =>
         LET rest == OptionalLines(card) IN
           \E n \in NamesOf(card) :
             n # <<>> /\ block = Some(join(<<L_Name \o n>> \o rest))

(* power 2, toughness 3, no loyalty, no defense                            *)
C6_Witness ==
  /\ stage = "done"
  /\ block = Some(join(<< <<"N", "a", "m", "e", ":", " ", "B", "o", "l", "t">>, <<"M", "a", "n", "a", " ", "c", "o", "s", "t", ":", " ", "{", "R", "}">>, <<"T", "y", "p", "e", ":", " ", "I", "n", "s", "t", "a", "n", "t">>,
                          <<"P", "o", "w", "e", "r", "/", "T", "o", "u", "g", "h", "n", "e", "s", "s", ":", " ", "2", "/", "3">>, <<"D", "e", "a", "l", " ", "3", " ", "d", "a", "m", "a", "g", "e", ".">> >>))

(* the block's first line is exactly line                                  *)
FirstLineIs(b, line) ==
  MatchAt(b, line, 0) /\ (Len(b) = Len(line) \/ b[Len(line) + 1] = "\n")

(* C7 (as stated): the name is resolved as pick_field resolves a field     *)
(* (top-level when non-null, else the first face's); with no name resolved *)
(* there is no block, and a block carries the resolved name.               *)
C7_NameLikePickField ==
  stage = "done" =>
    LET n == Resolved(card, "name") IN
      /\ ~NonEmpty(n) => block = None
      /\ block # None => FirstLineIs(block[1], L_Name \o Val(n))

NameRule(c) ==
  IF NonEmpty(c.name) THEN c.name
  ELSE IF Faces(c) # <<>> THEN Faces(c)[1].name
  ELSE None

(* C7 (amended): the name is the top-level name when it is non-null and    *)
(* non-empty, else the first face's name, else absent; with no non-empty   *)
(* name there is no block, and a block carries the resolved name.          *)
C7_NameTruthyFallback ==
  stage = "done" =>
    LET n == NameRule(card) IN
      /\ ~NonEmpty(n) => block = None
      /\ block # None => FirstLineIs(block[1], L_Name \o Val(n))

(* an empty top-level name, two faces with different names: the block is   *)
(* named after the first face                                              *)
C7_Witness ==
  /\ stage = "done"
  /\ card.name = Some(<<>>)
  /\ Len(Faces(card)) = 2
  /\ Faces(card)[1].name = Some(T_Back)
  /\ Faces(card)[2].name = Some(T_Face)
  /\ block # None
  /\ FirstLineIs(block[1], L_Name \o T_Back)

HasPlaneswalker(c) ==
  /\ Resolved(c, "type_line") # None
  /\ \E i \in 0..Len(Resolved(c, "type_line")[1]) :
       MatchAt(Resolved(c, "type_line")[1], T_Planeswalker, i)

(* C10: a record whose resolved type line contains "Planeswalker" is       *)
(* classified non-playable and gets no block.                              *)
C10_PlaneswalkerExcluded ==
  (stage = "done" /\ HasPlaneswalker(card)) =>
    /\ block = None
    /\ is_non_playable(card, Resolved(card, "type_line"),
                       Resolved(card, "oracle_text"))

(* a named planeswalker with a loyalty that no other rule excludes         *)
C10_Witness ==
  /\ stage = "done"
  /\ HasPlaneswalker(card)
  /\ NonEmpty(card.name)
  /\ card.loyalty # None
  /\ card.border_color = ClearProfile.border_color
  /\ card.legalities = ClearProfile.legalities
  /\ Resolved(card, "oracle_text") = Some(<<"D", "e", "a", "l", " ", "3", " ", "d", "a", "m", "a", "g", "e", ".">>)
  /\ block = None
====
